---- MODULE Spec2Model ----
(***************************************************************************)
(* A model of the frontier pipeline: scripts/update_frontier.py (ingest,   *)
(* group, score, select, write) and scripts/ai_summarize_deepseek.py (the  *)
(* enrichment pass over the written file).                                 *)
(*                                                                         *)
(* Text is a sequence of one-character strings (a Python str is a sequence *)
(* of code points); a non-ASCII code point is written "U+XXXX", and so is  *)
(* the grave accent, "U+0060".  A date is written as                      *)
(* its day number within 2024 (1 = 2024-01-01 .. 60 = 2024-02-29), and its *)
(* ISO form is the triple <<year, month, day>>, compared the way Python    *)
(* compares the zero-padded strings: field by field, left to right.        *)
(***************************************************************************)
EXTENDS Integers, Sequences, FiniteSets, TLC

\* ---------------------------------------------------------------- bounds
\* Tunable parameters of update_frontier.py, scaled down (the script sets
\* MAX_ITEMS = 60 and MAX_PER_SOURCE = 80) so that truncation and the
\* per-feed slice both happen on small inputs.
MAX_ITEMS == 2
MAX_PER_SOURCE == 1
\* The largest number of entries that survive ingestion in one run.
MaxEntries == 3

\* ------------------------------------------------------------ parameters
DAYS_BACK == 7
MIN_HOT_SCORE == 8

FEEDS ==
  << "Hugging Face Blog", "HF Daily Papers (community)",
     "arXiv cs.AI", "arXiv cs.LG", "arXiv cs.CL", "arXiv cs.CV" >>

SOURCE_WEIGHT ==
  ("Hugging Face Blog" :> 5) @@ ("HF Daily Papers (community)" :> 6) @@
  ("arXiv cs.AI" :> 2) @@ ("arXiv cs.LG" :> 2) @@
  ("arXiv cs.CL" :> 2) @@ ("arXiv cs.CV" :> 2) @@
  ("U+673A U+5668 U+4E4B U+5FC3" :> 5) @@ ("U+65B0 U+667A U+5143" :> 5)

CURATION_KEYWORDS ==
  { <<"d", "a", "i", "l", "y">>, <<"t", "r", "e", "n", "d", "i", "n", "g">>, <<"t", "o", "p">>, <<"f", "e", "a", "t", "u", "r", "e", "d">>, <<"h", "i", "g", "h", "l", "i", "g", "h", "t">>, <<"h", "i", "g", "h", "l", "i", "g", "h", "t", "s">>,
    <<"b", "e", "s", "t">>, <<"h", "o", "t">>, <<"U+699C">>, <<"U+7CBE", "U+9009">>, <<"U+63A8", "U+8350">>,
    <<"U+70ED", "U+70B9">> }

\* The characters of each source name (a str used as text by curation_bonus
\* and by sorted()).
SourceChars ==
  ("Hugging Face Blog" :> <<"H", "u", "g", "g", "i", "n", "g", " ", "F", "a", "c", "e", " ", "B", "l", "o", "g">>) @@
  ("HF Daily Papers (community)" :> <<"H", "F", " ", "D", "a", "i", "l", "y", " ", "P", "a", "p", "e", "r", "s", " ", "(", "c", "o", "m", "m", "u", "n", "i", "t", "y", ")">>) @@
  ("arXiv cs.AI" :> <<"a", "r", "X", "i", "v", " ", "c", "s", ".", "A", "I">>) @@ ("arXiv cs.LG" :> <<"a", "r", "X", "i", "v", " ", "c", "s", ".", "L", "G">>) @@
  ("arXiv cs.CL" :> <<"a", "r", "X", "i", "v", " ", "c", "s", ".", "C", "L">>) @@ ("arXiv cs.CV" :> <<"a", "r", "X", "i", "v", " ", "c", "s", ".", "C", "V">>)

\* ------------------------------------------------------------------ text
Ascii ==
  <<" ", "!", "\"", "#", "$", "%", "&", "'", "(", ")", "*", "+", ",", "-", ".", "/", "0", "1", "2", "3", "4", "5", "6", "7", "8", "9", ":", ";", "<", "=", ">", "?", "@", "A", "B", "C", "D", "E", "F", "G", "H", "I", "J", "K", "L", "M", "N", "O", "P", "Q", "R", "S", "T", "U", "V", "W", "X", "Y", "Z", "[", "\\", "]", "^", "_", "U+0060", "a", "b", "c", "d", "e", "f", "g", "h", "i", "j", "k", "l", "m", "n", "o", "p", "q", "r", "s", "t", "u", "v", "w", "x", "y", "z", "{", "|", "}", "~">>

\* ord(c), as a table over the ASCII characters; every other "U+XXXX" of the
\* model is above the ASCII range.
CodePoint == [c \in {Ascii[i] : i \in 1..Len(Ascii)} |->
                31 + (CHOOSE i \in 1..Len(Ascii) : Ascii[i] = c)]
Ord(c) == IF c \in DOMAIN CodePoint THEN CodePoint[c] ELSE 128

UpperCase == {Ascii[i] : i \in 34..59}
LowerCase == {Ascii[i] : i \in 66..91}
IsDigit(c) == c \in {"0", "1", "2", "3", "4", "5", "6", "7", "8", "9"}
IsUpper(c) == c \in UpperCase
IsAlpha(c) == c \in UpperCase \/ c \in LowerCase
\* \s of the re module
IsSpace(c) == c \in {" ", "\t", "\n", "\r", "\f"}
\* \w of the re module (str patterns): letters, digits, underscore
IsWord(c) == IsAlpha(c) \/ IsDigit(c) \/ c = "_" \/ c \notin DOMAIN CodePoint

\* str.lower(), one character
LowerOf == [c \in UpperCase |-> Ascii[CodePoint[c] + 32 - 31]]
Lower(c) == IF c \in UpperCase THEN LowerOf[c] ELSE c
LowerStr(s) == [i \in 1..Len(s) |-> Lower(s[i])]

\* k in s
IsSubstring(k, s) ==
  \/ k = <<>>
  \/ \E i \in 1..(Len(s) - Len(k) + 1) :
       s[i] = k[1] /\ SubSeq(s, i, i + Len(k) - 1) = k

\* s < t for two str, by code point
RECURSIVE StrLess(_, _)
StrLess(s, t) ==
  IF t = <<>> THEN FALSE
  ELSE IF s = <<>> THEN TRUE
  ELSE IF Ord(Head(s)) # Ord(Head(t)) THEN Ord(Head(s)) < Ord(Head(t))
  ELSE StrLess(Tail(s), Tail(t))

\* str.lstrip(), str.rstrip(), str.strip()
LStrip(s) ==
  IF \A i \in 1..Len(s) : IsSpace(s[i]) THEN <<>>
  ELSE SubSeq(s, CHOOSE i \in 1..Len(s) :
                   ~IsSpace(s[i]) /\ \A j \in 1..(i - 1) : IsSpace(s[j]),
              Len(s))
RStrip(s) ==
  IF \A i \in 1..Len(s) : IsSpace(s[i]) THEN <<>>
  ELSE SubSeq(s, 1, CHOOSE i \in 1..Len(s) :
                      ~IsSpace(s[i]) /\ \A j \in (i + 1)..Len(s) : IsSpace(s[j]))
Strip(s) == RStrip(LStrip(s))

\* re.sub(r"\s+", " ", s): of every run of whitespace, the first character
\* stays, as a space.
CollapseWs(s) ==
  LET Kept(i) == ~IsSpace(s[i]) \/ i = 1 \/ ~IsSpace(s[i - 1])
      kept == SelectSeq([i \in 1..Len(s) |-> i], Kept)
  IN  [k \in 1..Len(kept) |-> IF IsSpace(s[kept[k]]) THEN " " ELSE s[kept[k]]]

\* The index of the first c of s at or after i, 0 if none.
IndexFrom(s, c, i) ==
  IF \E j \in i..Len(s) : s[j] = c
  THEN CHOOSE j \in i..Len(s) : s[j] = c /\ \A k \in i..(j - 1) : s[k] # c
  ELSE 0

\* re.sub(r"<[^>]+>", " ", s): a match starts at a "<" and ends at the next
\* ">", with at least one character between them.
RECURSIVE StripTags(_)
StripTags(s) ==
  LET lt == IndexFrom(s, "<", 1)
      gt == IndexFrom(s, ">", lt + 1)
  IN  IF lt = 0 THEN s
      ELSE IF gt >= lt + 2
           THEN SubSeq(s, 1, lt - 1) \o <<" ">> \o StripTags(SubSeq(s, gt + 1, Len(s)))
           ELSE SubSeq(s, 1, lt) \o StripTags(SubSeq(s, lt + 1, Len(s)))

clean_text(s) == IF s = <<>> THEN <<>> ELSE Strip(CollapseWs(StripTags(s)))

\* truncate(s, n)
truncate(s, n) ==
  IF Len(clean_text(s)) <= n THEN clean_text(s)
  ELSE RStrip(SubSeq(clean_text(s), 1, n)) \o <<"U+2026">>

\* The character class of normalize_title's second substitution.
Punctuation ==
  { "[", "]", "(", ")", "{", "}", "<", ">", ":", ";", ",", ".", "!", "?",
    "\"", "'", "U+0060", "~", "@", "#", "$", "%", "^", "&", "*", "_", "=", "+",
    "\\", "|", "/" }

PunctToSpace(s) == [i \in 1..Len(s) |-> IF s[i] \in Punctuation THEN " " ELSE s[i]]

normalize_title(title) ==
  Strip(CollapseWs(PunctToSpace(LowerStr(clean_text(title)))))

\* ------------------------------------------------------------- arXiv ids
\* None, as the value of an optional str (only ever tested for truth).
None == <<>>

DigitsAt(s, i, n) == i + n - 1 <= Len(s) /\ \A k \in i..(i + n - 1) : IsDigit(s[k])
\* \d{4}\.\d{4,5} matches at i
IdAt(s, i) ==
  /\ DigitsAt(s, i, 4)
  /\ i + 4 <= Len(s)
  /\ s[i + 4] = "."
  /\ DigitsAt(s, i + 5, 4)
\* ... and the text it matches (the fifth digit is taken when there is one)
IdText(s, i) == SubSeq(s, i, IF DigitsAt(s, i + 5, 5) THEN i + 9 ELSE i + 8)

\* arxiv\.org/(abs|pdf)/(\d{4}\.\d{4,5})(v\d+)?   with re.IGNORECASE, at i
UrlPatternAt(s, i) ==
  /\ i + 13 <= Len(s)
  /\ LowerStr(SubSeq(s, i, i + 9)) = <<"a", "r", "x", "i", "v", ".", "o", "r", "g", "/">>
  /\ LowerStr(SubSeq(s, i + 10, i + 12)) \in {<<"a", "b", "s">>, <<"p", "d", "f">>}
  /\ s[i + 13] = "/"
  /\ IdAt(s, i + 14)

\* The first index at or after i that holds no whitespace (Len(s)+1 if none).
RECURSIVE SkipWs(_, _)
SkipWs(s, i) == IF i <= Len(s) /\ IsSpace(s[i]) THEN SkipWs(s, i + 1) ELSE i

\* \barxiv:\s*(\d{4}\.\d{4,5})   with re.IGNORECASE, at i
TagPatternAt(s, i) ==
  /\ i + 5 <= Len(s)
  /\ i = 1 \/ ~IsWord(s[i - 1])
  /\ LowerStr(SubSeq(s, i, i + 5)) = <<"a", "r", "x", "i", "v", ":">>
  /\ IdAt(s, SkipWs(s, i + 6))

extract_arxiv_id(text) ==
  IF text = <<>> THEN None
  ELSE IF \E i \in 1..Len(text) : UrlPatternAt(text, i)
  THEN LET i == CHOOSE i \in 1..Len(text) :
                  UrlPatternAt(text, i) /\ \A j \in 1..(i - 1) : ~UrlPatternAt(text, j)
       IN  IdText(text, i + 14)
  ELSE IF \E i \in 1..Len(text) : TagPatternAt(text, i)
  THEN LET i == CHOOSE i \in 1..Len(text) :
                  TagPatternAt(text, i) /\ \A j \in 1..(i - 1) : ~TagPatternAt(text, j)
       IN  IdText(text, SkipWs(text, i + 6))
  ELSE None

\* hashlib.sha1(s).hexdigest()[:12], as an injective function of s whose
\* values are no arXiv id and no normalized title.
stable_hash(s) == <<"sha1">> \o s

\* ----------------------------------------------------------------- dates
\* date.isoformat() and date.fromisoformat() on the days of 2024-01/02
isoformat(n) == IF n <= 31 THEN <<2024, 1, n>> ELSE <<2024, 2, n - 31>>
fromisoformat(t) == IF t[2] = 1 THEN t[3] ELSE 31 + t[3]

\* a < b and a >= b for two ISO dates, as Python compares the strings
IsoLess(a, b) ==
  \/ a[1] < b[1]
  \/ a[1] = b[1] /\ a[2] < b[2]
  \/ a[1] = b[1] /\ a[2] = b[2] /\ a[3] < b[3]
IsoGeq(a, b) == ~IsoLess(a, b)

\* --------------------------------------------------------------- scoring
Weight(source) ==
  IF source \in DOMAIN SOURCE_WEIGHT THEN SOURCE_WEIGHT[source] ELSE 3

recency_bonus(published, today_) ==
  LET delta == today_ - published
  IN  IF delta <= 1 THEN 4
      ELSE IF delta <= 3 THEN 3
      ELSE IF delta <= 7 THEN 1
      ELSE 0

curation_bonus(title, source) ==
  LET hay == LowerStr(title \o <<" ">> \o SourceChars[source])
  IN  IF \E kw \in CURATION_KEYWORDS : IsSubstring(LowerStr(kw), hay) THEN 3 ELSE 0

\* cross_source_bonus with both thresholds one too high (a faulty variant).
cross_source_bonus_OffByOne(num_sources) ==
  IF num_sources > 3 THEN 7
  ELSE IF num_sources > 2 THEN 4
  ELSE 0

cross_source_bonus(num_sources) ==
  IF num_sources >= 3 THEN 7
  ELSE IF num_sources >= 2 THEN 4
  ELSE 0

\* compute_hot_score without the curation bonus (a faulty variant).
compute_hot_score_NoCuration(source, published, today_, num_sources, title) ==
  Weight(source) + recency_bonus(published, today_) + cross_source_bonus(num_sources)

compute_hot_score(source, published, today_, num_sources, title) ==
  Weight(source) + recency_bonus(published, today_)
    + curation_bonus(title, source) + cross_source_bonus(num_sources)

\* ------------------------------------------------------------- the state
VARIABLES
  pc,           \* update_frontier.main: "fetch", "ingested", "grouped", "scored", "done"
  today,        \* dt.date.today(), read once at the start of main
  feed_idx,     \* the position of the feed loop in FEEDS
  raw_items,    \* the candidates that survived ingestion, in arrival order
  groups,       \* the dict of groups, as the sequence of its values (insertion order)
  final_items,  \* one output item per group, before the filter
  file,         \* data/frontier.json: the array it holds
  written,      \* whether this run of update_frontier.main wrote the file
  epc,          \* ai_summarize_deepseek.main: "start", "loop", "done"
  items,        \* the array the enrichment pass loaded
  idx,          \* the position of its loop
  updated       \* its counter of summarized items

vars ==
  << pc, today, feed_idx, raw_items, groups, final_items, file, written,
     epc, items, idx, updated >>

mainVars == << pc, today, feed_idx, raw_items, groups, final_items, written >>
enrichVars == << epc, items, idx, updated >>

\* ------------------------------------------------------------- ingestion
\* The day of the run, 2024-02-03.
Today == 31 + 3

\* An entry without a parseable published/updated/created value.
NoDate == -1

BlogUrl == <<"h", "t", "t", "p", "s", ":", "/", "/", "h", "u", "g", "g", "i", "n", "g", "f", "a", "c", "e", ".", "c", "o", "/", "b", "l", "o", "g", "/", "x">>
ArxivUrl == <<"h", "t", "t", "p", ":", "/", "/", "a", "r", "x", "i", "v", ".", "o", "r", "g", "/", "a", "b", "s", "/", "2", "4", "0", "1", ".", "0", "0", "0", "0", "1", "v", "2">>

\* The entries a feed may hold on that day (t): feedparser entries, reduced to the
\* attributes main reads (title, link, the first parseable date, the summary).
EntryPool ==
  LET t == Today IN
  { [title |-> <<"a", "-", "b">>,    link |-> BlogUrl,  published |-> t,      summary |-> <<>>],
    [title |-> <<"a", ".", "b">>,    link |-> BlogUrl,  published |-> t - 3,  summary |-> <<"<", "p", ">", "A", " ", " ", "b", ".", "<", "/", "p", ">">>],
    [title |-> <<"A", "<", "i", ">", "b">>,  link |-> <<>>,     published |-> t - 1,  summary |-> <<>>],
    [title |-> <<".">>,      link |-> ArxivUrl, published |-> t - 7,  summary |-> <<>>],
    [title |-> <<"T", "o", "p", ".">>,   link |-> <<>>,     published |-> NoDate, summary |-> <<"a", "r", "X", "i", "v", ":", " ", "2", "4", "0", "1", ".", "0", "0", "0", "0", "1", " ", "<", "b", ">", "n", "e", "w", "<", "/", "b", ">">>],
    [title |-> <<".", ".", ".">>,    link |-> <<>>,     published |-> t - 3,  summary |-> <<>>],
    [title |-> <<"a", "-", "b">>,    link |-> BlogUrl,  published |-> t - 8,  summary |-> <<>>] }

\* The feeds that answer with entries in the runs of the model; any feed may
\* fail to parse.  (The arXiv feeds have one weight and no curation keyword.)
LiveFeeds ==
  { "Hugging Face Blog", "HF Daily Papers (community)", "arXiv cs.AI", "arXiv cs.LG" }

safe_parse_date(e, today_) == IF e.published # NoDate THEN e.published ELSE today_

extract_summary(e) == e.summary

\* `a or b` for two optional str
OrElse(a, b) == IF a # <<>> THEN a ELSE b

\* The entries without the slice (a faulty variant).
SliceEntries_NoCap(entries) == entries

\* getattr(d, "entries", [])[:MAX_PER_SOURCE]
SliceEntries(entries) ==
  SubSeq(entries, 1, IF Len(entries) < MAX_PER_SOURCE THEN Len(entries) ELSE MAX_PER_SOURCE)

\* The cutoff test one day early (a faulty variant).
TooOld_OffByOne(published, today_) == published < today_ - DAYS_BACK - 1

\* published < cutoff: the entry is skipped
TooOld(published, today_) == published < today_ - DAYS_BACK

\* The dict main appends for one entry.
RawItem(e, source, today_) ==
  [ title        |-> clean_text(e.title),
    source       |-> source,
    published_at |-> isoformat(safe_parse_date(e, today_)),
    url          |-> e.link,
    ai_summary   |-> truncate(extract_summary(e), 260),
    tags         |-> <<>>,
    arxiv_id     |-> OrElse(extract_arxiv_id(e.link),
                       OrElse(extract_arxiv_id(clean_text(e.title)),
                              extract_arxiv_id(extract_summary(e)))) ]

\* The body of `for e in entries`, over the whole list.
RECURSIVE Ingest(_, _, _)
Ingest(entries, source, today_) ==
  IF entries = <<>> THEN <<>>
  ELSE IF TooOld(safe_parse_date(Head(entries), today_), today_)
       THEN Ingest(Tail(entries), source, today_)
       ELSE <<RawItem(Head(entries), source, today_)>>
              \o Ingest(Tail(entries), source, today_)

\* What one turn of the feed loop may append for a feed that answers: the
\* ingestion of the slice of any list of at most MAX_PER_SOURCE + 1 entries.
FeedResults ==
  [ source \in LiveFeeds |->
      UNION { { Ingest(SliceEntries(entries), source, Today) :
                  entries \in [1..n -> EntryPool] } :
              n \in 1..(MAX_PER_SOURCE + 1) } ]

\* -------------------------------------------------------------- grouping
ItemKey(it) ==
  LET key == OrElse(it.arxiv_id, normalize_title(it.title))
  IN  IF key # <<>> THEN key ELSE stable_hash(OrElse(it.url, it.title))

\* One turn of the grouping loop that leaves out g["sources"].add (a faulty
\* variant).
AddToGroups_KeepFirstSource(gs, it) ==
  LET key == ItemKey(it)
  IN  IF \E i \in 1..Len(gs) : gs[i].key = key
      THEN [i \in 1..Len(gs) |->
              IF gs[i].key = key THEN [gs[i] EXCEPT !.items = Append(@, it)] ELSE gs[i]]
      ELSE Append(gs, [key |-> key, items |-> <<it>>, sources |-> {it.source}])

\* One turn of `for it in raw_items`.
AddToGroups(gs, it) ==
  LET key == ItemKey(it)
  IN  IF \E i \in 1..Len(gs) : gs[i].key = key
      THEN [i \in 1..Len(gs) |->
              IF gs[i].key = key
              THEN [gs[i] EXCEPT !.items = Append(@, it), !.sources = @ \cup {it.source}]
              ELSE gs[i]]
      ELSE Append(gs, [key |-> key, items |-> <<it>>, sources |-> {it.source}])

RECURSIVE GroupFrom(_, _)
GroupFrom(gs, its) ==
  IF its = <<>> THEN gs ELSE GroupFrom(AddToGroups(gs, Head(its)), Tail(its))

Grouper(its) == GroupFrom(<<>>, its)

\* ------------------------------------------------------- best and score
\* item_rank(a) >= item_rank(b): the pair (weight, ISO date), compared as tuples
RankGeq(a, b) ==
  \/ Weight(a.source) > Weight(b.source)
  \/ Weight(a.source) = Weight(b.source) /\ IsoGeq(a.published_at, b.published_at)

\* An insertion that is not stable: x goes before the elements it ties with
\* (a faulty variant).
RECURSIVE InsertByRank_Unstable(_, _)
InsertByRank_Unstable(x, s) ==
  IF s = <<>> THEN <<x>>
  ELSE IF RankGeq(x, Head(s)) THEN <<x>> \o s
  ELSE <<Head(s)>> \o InsertByRank_Unstable(x, Tail(s))

\* list.sort(key=item_rank, reverse=True) is stable: x, which came after the
\* elements of s, goes behind every element that ranks at least as high.
RECURSIVE InsertByRank(_, _)
InsertByRank(x, s) ==
  IF s = <<>> THEN <<x>>
  ELSE IF RankGeq(Head(s), x) THEN <<Head(s)>> \o InsertByRank(x, Tail(s))
  ELSE <<x>> \o s

RECURSIVE SortByRank(_)
SortByRank(its) ==
  IF its = <<>> THEN <<>>
  ELSE InsertByRank(its[Len(its)], SortByRank(SubSeq(its, 1, Len(its) - 1)))

\* max(dates)
RECURSIVE MaxDate(_)
MaxDate(its) ==
  IF Len(its) = 1 THEN fromisoformat(its[1].published_at)
  ELSE LET m == MaxDate(Tail(its))
           d == fromisoformat(its[1].published_at)
       IN  IF d >= m THEN d ELSE m

\* sorted(list(sources))
RECURSIVE SortedSources(_)
SortedSources(S) ==
  IF S = {} THEN <<>>
  ELSE LET m == CHOOSE x \in S :
                  \A y \in S \ {x} : StrLess(SourceChars[x], SourceChars[y])
       IN  <<m>> \o SortedSources(S \ {m})

\* The output item of one group (the body of `for g in groups.values()`).
OutItem(g, today_) ==
  LET sorted_ == SortByRank(g.items)
      best == sorted_[1]
      published_group == MaxDate(sorted_)
  IN  [ title        |-> best.title,
        source       |-> best.source,
        published_at |-> isoformat(published_group),
        url          |-> best.url,
        ai_summary   |-> best.ai_summary,
        tags         |-> best.tags,
        hot_score    |-> compute_hot_score(best.source, published_group, today_,
                                           Cardinality(g.sources), best.title),
        sources      |-> SortedSources(g.sources) ]

\* ------------------------------------------------------------- selection
\* (x.hot_score, x.published_at) >= (y.hot_score, y.published_at)
FinalGeq(x, y) ==
  \/ x.hot_score > y.hot_score
  \/ x.hot_score = y.hot_score /\ IsoGeq(x.published_at, y.published_at)

RECURSIVE InsertFinal(_, _)
InsertFinal(x, s) ==
  IF s = <<>> THEN <<x>>
  ELSE IF FinalGeq(Head(s), x) THEN <<Head(s)>> \o InsertFinal(x, Tail(s))
  ELSE <<x>> \o s

\* final_items.sort(key=..., reverse=True)
RECURSIVE SortFinal(_)
SortFinal(its) ==
  IF its = <<>> THEN <<>>
  ELSE InsertFinal(its[Len(its)], SortFinal(SubSeq(its, 1, Len(its) - 1)))

\* The filter with an exclusive threshold (a faulty variant).
HotEnough_Strict(x) == x.hot_score > MIN_HOT_SCORE

HotEnough(x) == x.hot_score >= MIN_HOT_SCORE

\* final_items[:MAX_ITEMS]
Truncate(its) ==
  SubSeq(its, 1, IF Len(its) < MAX_ITEMS THEN Len(its) ELSE MAX_ITEMS)

\* The selection that truncates before it sorts (a faulty variant).
Select_TruncateFirst(its) == SortFinal(Truncate(SelectSeq(its, HotEnough)))

Select(its) == Truncate(SortFinal(SelectSeq(its, HotEnough)))

\* ------------------------------------------- update_frontier.main, steps
Init ==
  /\ pc = "fetch"
  /\ today = Today
  /\ feed_idx = 1
  /\ raw_items = <<>>
  /\ groups = <<>>
  /\ final_items = <<>>
  /\ file = <<>>
  /\ written = FALSE
  /\ epc = "idle"
  /\ items = <<>>
  /\ idx = 0
  /\ updated = 0

\* feedparser.parse(url) answers bozo = 1 with no entries: the feed is skipped.
FetchFailed ==
  /\ pc = "fetch"
  /\ feed_idx <= Len(FEEDS)
  /\ feed_idx' = feed_idx + 1
  /\ UNCHANGED << pc, today, raw_items, groups, final_items, file, written >>
  /\ UNCHANGED enrichVars

\* One turn of the feed loop over a feed that answers with entries.
FetchFeed ==
  /\ pc = "fetch"
  /\ feed_idx <= Len(FEEDS)
  /\ FEEDS[feed_idx] \in LiveFeeds
  /\ today = Today
  /\ \E new \in FeedResults[FEEDS[feed_idx]] :
       /\ Len(raw_items) + Len(new) <= MaxEntries
       /\ raw_items' = raw_items \o new
  /\ feed_idx' = feed_idx + 1
  /\ UNCHANGED << pc, today, groups, final_items, file, written >>
  /\ UNCHANGED enrichVars

\* `if not raw_items`: write "[]" and return.
WriteEmpty ==
  /\ pc = "fetch"
  /\ feed_idx > Len(FEEDS)
  /\ raw_items = <<>>
  /\ file' = <<>>
  /\ written' = TRUE
  /\ pc' = "done"
  /\ UNCHANGED << today, feed_idx, raw_items, groups, final_items >>
  /\ UNCHANGED enrichVars

\* The grouping loop.
Group ==
  /\ pc = "fetch"
  /\ feed_idx > Len(FEEDS)
  /\ raw_items # <<>>
  /\ groups' = Grouper(raw_items)
  /\ pc' = "grouped"
  /\ UNCHANGED << today, feed_idx, raw_items, final_items, file, written >>
  /\ UNCHANGED enrichVars

\* The loop over groups.values(): sort the members, pick best, score, append.
Score ==
  /\ pc = "grouped"
  /\ groups' = [i \in 1..Len(groups) |->
                  [groups[i] EXCEPT !.items = SortByRank(@)]]
  /\ final_items' = [i \in 1..Len(groups) |-> OutItem(groups[i], today)]
  /\ pc' = "scored"
  /\ UNCHANGED << today, feed_idx, raw_items, file, written >>
  /\ UNCHANGED enrichVars

\* Filter, sort, truncate and write.  (final_items keeps the list the loop
\* built; the list main rebinds the name to is the one written to the file.)
WriteOut ==
  /\ pc = "scored"
  /\ file' = Select(final_items)
  /\ written' = TRUE
  /\ pc' = "done"
  /\ UNCHANGED << today, feed_idx, raw_items, groups, final_items >>
  /\ UNCHANGED enrichVars

Next == FetchFailed \/ FetchFeed \/ WriteEmpty \/ Group \/ Score \/ WriteOut

Spec == Init /\ [][Next]_vars

\* ------------------------------------------- ai_summarize_deepseek: text
TAGS ==
  << <<"Agent", {<<"a", "g", "e", "n", "t">>, <<"t", "o", "o", "l">>, <<"f", "u", "n", "c", "t", "i", "o", "n", " ", "c", "a", "l", "l", "i", "n", "g">>, <<"m", "c", "p">>, <<"p", "l", "a", "n", "n", "e", "r">>,
                 <<"w", "o", "r", "k", "f", "l", "o", "w">>, <<"a", "u", "t", "o", "n", "o", "m", "o", "u", "s">>}>>,
     <<"RAG", {<<"r", "a", "g">>, <<"r", "e", "t", "r", "i", "e", "v", "a", "l">>, <<"r", "e", "r", "a", "n", "k">>, <<"g", "r", "a", "p", "h">>, <<"g", "r", "a", "p", "h", "r", "a", "g">>,
               <<"v", "e", "c", "t", "o", "r">>, <<"e", "m", "b", "e", "d", "d", "i", "n", "g">>}>>,
     <<"LLM", {<<"l", "l", "m">>, <<"l", "a", "n", "g", "u", "a", "g", "e", " ", "m", "o", "d", "e", "l">>, <<"t", "r", "a", "n", "s", "f", "o", "r", "m", "e", "r">>, <<"i", "n", "s", "t", "r", "u", "c", "t", "i", "o", "n">>,
               <<"s", "f", "t">>, <<"r", "l", "h", "f">>, <<"d", "p", "o">>}>>,
     <<"Multimodal", {<<"m", "u", "l", "t", "i", "m", "o", "d", "a", "l">>, <<"v", "i", "s", "i", "o", "n", "-", "l", "a", "n", "g", "u", "a", "g", "e">>, <<"v", "l", "m">>, <<"i", "m", "a", "g", "e">>,
                      <<"v", "i", "d", "e", "o">>, <<"a", "u", "d", "i", "o">>}>>,
     <<"Vision", {<<"d", "i", "f", "f", "u", "s", "i", "o", "n">>, <<"s", "e", "g", "m", "e", "n", "t", "a", "t", "i", "o", "n">>, <<"d", "e", "t", "e", "c", "t", "i", "o", "n">>, <<"r", "e", "s", "t", "o", "r", "m", "e", "r">>,
                  <<"d", "e", "n", "o", "i", "s", "e">>, <<"s", "u", "p", "e", "r", "-", "r", "e", "s", "o", "l", "u", "t", "i", "o", "n">>}>>,
     <<"Reasoning", {<<"r", "e", "a", "s", "o", "n", "i", "n", "g">>, <<"m", "a", "t", "h">>, <<"t", "h", "e", "o", "r", "e", "m">>, <<"p", "l", "a", "n", "n", "i", "n", "g">>}>>,
     <<"Systems", {<<"i", "n", "f", "e", "r", "e", "n", "c", "e">>, <<"s", "e", "r", "v", "i", "n", "g">>, <<"t", "h", "r", "o", "u", "g", "h", "p", "u", "t">>, <<"l", "a", "t", "e", "n", "c", "y">>,
                   <<"q", "u", "a", "n", "t", "i", "z", "a", "t", "i", "o", "n">>, <<"k", "e", "r", "n", "e", "l">>, <<"c", "u", "d", "a">>}>>,
     <<"Robotics", {<<"r", "o", "b", "o", "t">>, <<"s", "l", "a", "m">>, <<"m", "a", "n", "i", "p", "u", "l", "a", "t", "i", "o", "n">>, <<"c", "o", "n", "t", "r", "o", "l">>}>>,
     <<"Finance", {<<"f", "i", "n", "a", "n", "c", "e">>, <<"s", "t", "o", "c", "k">>, <<"t", "r", "a", "d", "i", "n", "g">>, <<"v", "a", "l", "u", "a", "t", "i", "o", "n">>}>> >>

\* The tag names in the order sorted() gives them (by code point).
TagsSorted ==
  << "Agent", "Finance", "LLM", "Multimodal", "RAG", "Reasoning", "Robotics",
     "Systems", "Vision" >>

\* sorted(set(...)) of tag names
SortedTags(S) ==
  LET In(t) == t \in S IN SelectSeq(TagsSorted, In)

\* simple_tags(text), as the set it sorts
simple_tags(text) ==
  { TAGS[i][1] : i \in { j \in 1..Len(TAGS) :
                           \E kw \in TAGS[j][2] : IsSubstring(kw, LowerStr(text)) } }

\* clean_ws(s)
clean_ws(s) == CollapseWs(Strip(s))

\* The marker of a summary written from too little information.
LimitedMarker == <<"U+4FE1", "U+606F", "U+6709", "U+9650">>

\* The test of the loop: the summary is long and unmarked, the item is skipped.
KeepsSummary(it) ==
  /\ Len(Strip(it.ai_summary)) >= 80
  /\ ~IsSubstring(LimitedMarker, Strip(it.ai_summary))

\* summarize_one storing the tags under the key "sources" (a faulty variant).
summarize_one_WrongKey(item, text) ==
  [ item EXCEPT
      !.ai_summary = clean_ws(text),
      !.sources = SortedTags({item.tags[i] : i \in 1..Len(item.tags)}
                               \cup simple_tags(item.title \o <<" ">> \o clean_ws(text))) ]

\* summarize_one(item), with `text` the answer of call_deepseek_chat
summarize_one(item, text) ==
  [ item EXCEPT
      !.ai_summary = clean_ws(text),
      !.tags = SortedTags({item.tags[i] : i \in 1..Len(item.tags)}
                            \cup simple_tags(item.title \o <<" ">> \o clean_ws(text))) ]

\* ----------------------------------------- ai_summarize_deepseek: inputs
\* The answers of the model the runs draw from.
Responses ==
  { <<"o", "k">>,
    <<" ", " ", "A", " ", "r", "e", "t", "r", "i", "e", "v", "a", "l", "\n", " ", "a", "g", "e", "n", "t", ".", " ", " ">>,
    <<"U+4FE1", "U+606F", "U+6709", "U+9650", ":", " ", "a", " ", "l", "o", "n", "g", " ", "a", "n", "s", "w", "e", "r", ",", " ", "a", " ", "l", "o", "n", "g", " ", "a", "n", "s", "w", "e", "r", ",", " ", "a", " ", "l", "o", "n", "g", " ", "a", "n", "s", "w", "e", "r", ",", " ", "a", " ", "l", "o", "n", "g", " ", "a", "n", "s", "w", "e", "r", ",", " ", "a", " ", "l", "o", "n", "g", " ", "a", "n", "s", "w", "e", "r", ".">> }

\* A snippet of 90 characters.
LongSnippet ==
  <<"a", "b", "s", "t", "r", "a", "c", "t", " ", "a", "b", "s", "t", "r", "a", "c", "t", " ", "a", "b", "s", "t", "r", "a", "c", "t", " ", "a", "b", "s", "t", "r", "a", "c", "t", " ", "a", "b", "s", "t", "r", "a", "c", "t", " ", "a", "b", "s", "t", "r", "a", "c", "t", " ", "a", "b", "s", "t", "r", "a", "c", "t", " ", "a", "b", "s", "t", "r", "a", "c", "t", " ", "a", "b", "s", "t", "r", "a", "c", "t", " ", "a", "b", "s", "t", "r", "a", "c", "t", ".">>

\* The item update_frontier.main writes for a feed that holds one entry.
ItemOf(e, source) == OutItem(Grouper(Ingest(<<e>>, source, Today))[1], Today)

\* Items a file may hold: written by update_frontier.main (a short snippet, a
\* long one), or summarized by an earlier pass (long, with the marker).
FilePool ==
  LET short == ItemOf([title |-> <<"a", "-", "b">>, link |-> BlogUrl, published |-> Today,
                       summary |-> <<>>], "HF Daily Papers (community)")
      long  == ItemOf([title |-> <<"T", "o", "p", " ", "m", "o", "d", "e", "l">>, link |-> ArxivUrl, published |-> Today - 3,
                       summary |-> LongSnippet], "Hugging Face Blog")
  IN  { short, long,
        summarize_one(short, CHOOSE r \in Responses : IsSubstring(LimitedMarker, r)) }

\* The array is in the order update_frontier.main writes.
IsDescending(its) == \A i \in 1..(Len(its) - 1) : FinalGeq(its[i], its[i + 1])

FilesIn ==
  { its \in UNION { [1..n -> FilePool] : n \in 0..MAX_ITEMS } : IsDescending(its) }

\* ------------------------------------- ai_summarize_deepseek.main, steps
InitEnrich ==
  /\ pc = "done"
  /\ today = Today
  /\ feed_idx = Len(FEEDS) + 1
  /\ raw_items = <<>>
  /\ groups = <<>>
  /\ final_items = <<>>
  /\ file \in FilesIn
  /\ written = TRUE
  /\ epc = "start"
  /\ items = <<>>
  /\ idx = 0
  /\ updated = 0

\* AI_ENABLED is false: return at once.
EnrichDisabled ==
  /\ epc = "start"
  /\ epc' = "done"
  /\ UNCHANGED << items, idx, updated, file >>
  /\ UNCHANGED mainVars

\* Read the file; an empty array ends the pass without a write.
EnrichLoad ==
  /\ epc = "start"
  /\ items' = file
  /\ epc' = IF file = <<>> THEN "done" ELSE "loop"
  /\ idx' = 1
  /\ UNCHANGED << updated, file >>
  /\ UNCHANGED mainVars

\* `continue`: the summary is kept.
EnrichSkip ==
  /\ epc = "loop"
  /\ idx <= Len(items)
  /\ KeepsSummary(items[idx])
  /\ idx' = idx + 1
  /\ UNCHANGED << epc, items, updated, file >>
  /\ UNCHANGED mainVars

\* summarize_one returns.
EnrichOk ==
  /\ epc = "loop"
  /\ idx <= Len(items)
  /\ ~KeepsSummary(items[idx])
  /\ \E text \in Responses :
       items' = [items EXCEPT ![idx] = summarize_one(items[idx], text)]
  /\ updated' = updated + 1
  /\ idx' = idx + 1
  /\ UNCHANGED << epc, file >>
  /\ UNCHANGED mainVars

\* call_deepseek_chat raises (no key, the network, a malformed answer): the
\* warning is printed and the loop goes on.
EnrichFail ==
  /\ epc = "loop"
  /\ idx <= Len(items)
  /\ ~KeepsSummary(items[idx])
  /\ idx' = idx + 1
  /\ UNCHANGED << epc, items, updated, file >>
  /\ UNCHANGED mainVars

\* json.dump(items, f)
EnrichWrite ==
  /\ epc = "loop"
  /\ idx > Len(items)
  /\ file' = items
  /\ epc' = "done"
  /\ UNCHANGED << items, idx, updated >>
  /\ UNCHANGED mainVars

NextEnrich ==
  EnrichDisabled \/ EnrichLoad \/ EnrichSkip \/ EnrichOk \/ EnrichFail \/ EnrichWrite

SpecEnrich == InitEnrich /\ [][NextEnrich]_vars

\* ================================================================ claims
\* The number of positions of seq that hold x.
Count(seq, x) == Cardinality({i \in 1..Len(seq) : seq[i] = x})

\* The day number of an ISO date, field by field.
DayOf(t) == (t[2] - 1) * 31 + t[3]

\* The items of the score loop that pass the filter, in the order of the loop.
Passing == SelectSeq(final_items, LAMBDA x : x.hot_score >= MIN_HOT_SCORE)

\* The part of an item's hot_score that weight, recency and curation leave.
CrossPart(o) ==
  o.hot_score - Weight(o.source)
    - recency_bonus(DayOf(o.published_at), today) - curation_bonus(o.title, o.source)

C2_CapInvariant ==
  \A i \in 1..Len(FEEDS) :
    Cardinality({k \in 1..Len(file) : file[k].source = FEEDS[i]}) <= MAX_PER_SOURCE

\* The written array holds MAX_PER_SOURCE items of one source, beside others.
C2_Witness ==
  /\ pc = "done"
  /\ \E i \in 1..Len(FEEDS) :
       /\ Cardinality({k \in 1..Len(file) : file[k].source = FEEDS[i]}) = MAX_PER_SOURCE
       /\ Len(file) > MAX_PER_SOURCE

\* ---------------------------------------------------------------- C3
\* C3 as stated: when an entry survived ingestion, the written array is not
\* empty.
C3_Original == (pc = "done" /\ raw_items # <<>>) => file # <<>>

\* C3, amended: the run writes an empty array exactly when no group scores
\* MIN_HOT_SCORE or more (as when no entry survived ingestion).
C3_EmptyOutput ==
  pc = "done" =>
    (file = <<>> <=>
       \A i \in 1..Len(final_items) : final_items[i].hot_score < MIN_HOT_SCORE)

\* Entries survived, every group scored too low, and "[]" was written.
C3_Witness == pc = "done" /\ written /\ raw_items # <<>> /\ file = <<>>

\* ---------------------------------------------------------------- C4
\* What grouping fixes of a dict of groups: per key, the members (with
\* their number) and the source set.
GroupView(gs) ==
  { [ key     |-> gs[i].key,
      members |-> {gs[i].items[k] : k \in 1..Len(gs[i].items)},
      size    |-> Len(gs[i].items),
      sources |-> gs[i].sources ] : i \in 1..Len(gs) }

\* C4: every permutation of the raw entries gives the same keys, and per key
\* the same members and the same source set; the group of an entry is the
\* one of its own identity key.
C4_GroupingCommutes ==
  pc = "grouped" =>
    /\ \A p \in Permutations(1..Len(raw_items)) :
         GroupView(Grouper([i \in 1..Len(raw_items) |-> raw_items[p[i]]]))
           = GroupView(groups)
    /\ \A i \in 1..Len(raw_items) :
         \E k \in 1..Len(groups) :
           /\ groups[k].key = ItemKey(raw_items[i])
           /\ Count(groups[k].items, raw_items[i]) = Count(raw_items, raw_items[i])
    /\ \A k, m \in 1..Len(groups) : groups[k].key = groups[m].key => k = m

\* Several groups, one of them with members of different sources that did
\* not arrive next to each other.
C4_Witness ==
  /\ pc = "grouped"
  /\ Len(groups) >= 2
  /\ Len(raw_items) >= 3
  /\ ItemKey(raw_items[1]) = ItemKey(raw_items[3])
  /\ ItemKey(raw_items[1]) # ItemKey(raw_items[2])
  /\ raw_items[1].source # raw_items[3].source

\* ---------------------------------------------------------------- C5
\* The members of the group g, in arrival order.
Arrived(g) == SelectSeq(raw_items, LAMBDA it : \E k \in 1..Len(g.items) : g.items[k] = it)

\* a ranks at least as high as b: by weight, then by date.
Outranks(a, b) ==
  \/ Weight(a.source) > Weight(b.source)
  \/ /\ Weight(a.source) = Weight(b.source)
     /\ DayOf(a.published_at) >= DayOf(b.published_at)

\* C5: the item of a group copies title, url, source and snippet from the
\* first-arrived member among those of the greatest (weight, date) pair; a
\* group of three sources gives an item with three `sources` that passes
\* the filter and carries a source of the greatest weight.
C5_BestMember ==
  pc \in {"scored", "done"} =>
    \A i \in 1..Len(groups) :
      LET ms == Arrived(groups[i])
          top == {k \in 1..Len(ms) : \A j \in 1..Len(ms) : Outranks(ms[k], ms[j])}
          first == CHOOSE k \in top : \A j \in top : k <= j
          o == final_items[i]
      IN  /\ top # {}
          /\ o.title = ms[first].title
          /\ o.url = ms[first].url
          /\ o.source = ms[first].source
          /\ o.ai_summary = ms[first].ai_summary
          /\ Cardinality(groups[i].sources) >= 3 =>
               /\ Len(o.sources) = Cardinality(groups[i].sources)
               /\ o.hot_score >= MIN_HOT_SCORE
               /\ \A s \in groups[i].sources : Weight(o.source) >= Weight(s)
               /\ (pc = "done" /\ Len(final_items) <= MAX_ITEMS) => Count(file, o) = 1

\* Three entries of one arXiv id from three sources gave one written item.
C5_Witness ==
  /\ pc = "done"
  /\ Len(groups) = 1
  /\ Cardinality(groups[1].sources) = 3
  /\ groups[1].key = <<"2", "4", "0", "1", ".", "0", "0", "0", "0", "1">>
  /\ Len(file) = 1
  /\ Len(file[1].sources) = 3

\* ---------------------------------------------------------------- C6
\* x stands at least as high as y in the final order.
NotBelow(x, y) ==
  \/ x.hot_score > y.hot_score
  \/ x.hot_score = y.hot_score /\ DayOf(x.published_at) >= DayOf(y.published_at)

\* C6: the written array descends by (hot_score, published_at); it is a
\* prefix of that order: it holds min(MAX_ITEMS, number of passing items)
\* passing items, and no passing item left out stands above a written one.
C6_Ordered ==
  pc = "done" =>
    /\ \A i \in 1..(Len(file) - 1) : NotBelow(file[i], file[i + 1])
    /\ Len(file) = IF Len(Passing) < MAX_ITEMS THEN Len(Passing) ELSE MAX_ITEMS
    /\ \A i \in 1..Len(file) : Count(file, file[i]) <= Count(Passing, file[i])
    /\ \A j \in 1..Len(Passing) :
         Count(file, Passing[j]) < Count(Passing, Passing[j]) =>
           \A i \in 1..Len(file) : NotBelow(file[i], Passing[j])

\* More items passed the filter than MAX_ITEMS: the array was truncated.
C6_Witness ==
  /\ pc = "done"
  /\ Len(Passing) > MAX_ITEMS
  /\ Len(file) = MAX_ITEMS

\* ---------------------------------------------------------------- C7
\* Two arrays agree on their length and, at every position, on hot_score,
\* published_at, sources, url and title.
SameFrame(a, b) ==
  /\ Len(a) = Len(b)
  /\ \A i \in 1..Len(a) :
       /\ a[i].hot_score = b[i].hot_score
       /\ a[i].published_at = b[i].published_at
       /\ a[i].sources = b[i].sources
       /\ a[i].url = b[i].url
       /\ a[i].title = b[i].title

\* C7: no step of the enrichment pass, whatever each summarization call
\* does, changes the length or the order of the file's array or the
\* hot_score, published_at, sources, url or title of an item; the array in
\* memory, which the pass writes back, agrees with the file on all of them.
C7_Frame ==
  [][ /\ SameFrame(file, file')
      /\ epc' = "loop" => SameFrame(items', file') ]_vars

\* The pass wrote back an array in which one item was summarized and tagged
\* and another, whose call failed, kept its empty snippet.
C7_Witness ==
  /\ epc = "done"
  /\ updated >= 1
  /\ \E i \in 1..Len(file) : file[i].tags # <<>>
  /\ \E i \in 1..Len(file) : file[i].ai_summary = <<>>

\* ---------------------------------------------------------------- C8
\* C8: every written item is dated no more than DAYS_BACK days before
\* today, and the date of every group's item is the latest of its members.
C8_Cutoff ==
  /\ \A i \in 1..Len(file) : DayOf(file[i].published_at) >= today - DAYS_BACK
  /\ pc \in {"scored", "done"} =>
       \A i \in 1..Len(groups) :
         LET ms == Arrived(groups[i])
         IN  /\ \A k \in 1..Len(ms) :
                  DayOf(final_items[i].published_at) >= DayOf(ms[k].published_at)
             /\ \E k \in 1..Len(ms) :
                  final_items[i].published_at = ms[k].published_at

\* A written item dated exactly DAYS_BACK days before today, and one whose
\* date is later than that of the member it copies.
C8_Witness ==
  /\ pc = "done"
  /\ \E i \in 1..Len(file) : DayOf(file[i].published_at) = today - DAYS_BACK
  /\ \E i \in 1..Len(file) :
       \E k \in 1..Len(raw_items) :
         /\ raw_items[k].title = file[i].title
         /\ raw_items[k].source = file[i].source
         /\ raw_items[k].url = file[i].url
         /\ DayOf(raw_items[k].published_at) < DayOf(file[i].published_at)

\* ---------------------------------------------------------------- C9
\* string.punctuation
AllPunctuation ==
  { "!", "\"", "#", "$", "%", "&", "'", "(", ")", "*", "+", ",", "-", ".", "/",
    ":", ";", "<", "=", ">", "?", "@", "[", "\\", "]", "^", "_", "U+0060",
    "{", "|", "}", "~" }

\* A title up to letter case, punctuation and whitespace: lower-cased, with
\* every punctuation character read as a space, runs of spaces as one.
UpToCasePunctSpace(t) ==
  Strip(CollapseWs([i \in 1..Len(t) |->
                      IF t[i] \in AllPunctuation THEN " " ELSE Lower(t[i])]))

\* C9 as stated: two titles that differ only by letter case, punctuation
\* characters or whitespace have one normalize_title key, and entries
\* without an arXiv id that carry them are in one group.
C9_Original ==
  \A i, j \in 1..Len(raw_items) :
    UpToCasePunctSpace(raw_items[i].title) = UpToCasePunctSpace(raw_items[j].title) =>
      /\ normalize_title(raw_items[i].title) = normalize_title(raw_items[j].title)
      /\ (raw_items[i].arxiv_id = None /\ raw_items[j].arxiv_id = None) =>
           ItemKey(raw_items[i]) = ItemKey(raw_items[j])

\* --------------------------------------------------------------- C10
\* The sources the feed list marks as hot or curated; the arXiv feeds are
\* the secondary ones ("supplement only").
PrimarySources == {"Hugging Face Blog", "HF Daily Papers (community)"}

\* C10 as stated: a group of a single primary source gets a cross-source
\* bonus above zero, a group of a single secondary source gets zero.
C10_Original ==
  pc = "scored" =>
    \A i \in 1..Len(groups) :
      Cardinality(groups[i].sources) = 1 =>
        IF groups[i].sources \subseteq PrimarySources
        THEN CrossPart(final_items[i]) > 0
        ELSE CrossPart(final_items[i]) = 0

\* C10, amended: the cross-source bonus depends on the number of sources of
\* the group alone: 0 for one source, primary or secondary, 4 for two, 7
\* for three or more.
C10_CrossBonus ==
  pc = "scored" =>
    \A i \in 1..Len(groups) :
      CrossPart(final_items[i]) =
        CASE Cardinality(groups[i].sources) = 1 -> 0
          [] Cardinality(groups[i].sources) = 2 -> 4
          [] OTHER -> 7

\* A group of a single primary source beside a group of two sources.
C10_Witness ==
  /\ pc = "scored"
  /\ \E i \in 1..Len(groups) :
       Cardinality(groups[i].sources) = 1 /\ groups[i].sources \subseteq PrimarySources
  /\ \E i \in 1..Len(groups) : Cardinality(groups[i].sources) = 2

====
